---- MODULE Spec2Model ----
(***************************************************************************)
(* The download pipeline of cmd/formats/download/root.go:                  *)
(*   feeder -> chapters -> chaptersToPaths -> paths -> pathsToImages       *)
(*          -> images -> collector loop of MangadexPages.                  *)
(* Every goroutine is a process; every channel is unbuffered, so a send    *)
(* and the matching receive are one joint step.                            *)
(***************************************************************************)
EXTENDS Integers, Sequences, FiniteSets, Bags, TLC

\* ---------------------------------------------------------------- bounds
\* chapters plus pages of a run of the general specification
MaxItems == 3
\* chapters plus pages of a run with a page that answers null bodies
QuirkItems == 3
\* chapters beyond maxJobsChapter, pages beyond maxJobsImage in a saturating run
ExtraChapters == 1
ExtraPages == 1
\* covers of a manga
MaxCovers == 3

\* ------------------------------------------------------ program constants
maxJobsChapter == 8
maxJobsImage == 16
MaxTry == 10
StatusOK == 200

VARIABLES
    chapterList,     \* the chapterList argument of MangadexPages
    catalog,         \* per chapter: the manifest lengths the catalog may answer
    pageBudget,      \* pages the catalog may still hand out in this run
    quirky,          \* URLs whose 200 responses may decode to a null image
    faulty,          \* requests that may fail on their own: manifest fetches of
                     \* chapters; non-200 answers, transport errors and
                     \* undecodable bodies of URLs
    serial,          \* TRUE: the request executor answers one request at a time
    feeder,          \* the goroutine of root.go:86-92
    chaptersClosed,  \* close(chapters)
    dp,              \* dispatcher goroutine of chaptersToPaths
    pw,              \* worker goroutines of chaptersToPaths, one per chapter
    errP,            \* err of the errgroup of chaptersToPaths
    pathsClosed,     \* close(ch) in chaptersToPaths
    di,              \* dispatcher goroutine of pathsToImages
    iw,              \* worker goroutines of pathsToImages, one per page URL
    errI,            \* err of the errgroup of pathsToImages
    imagesClosed,    \* close(ch) in pathsToImages
    outer,           \* the errgroup eg of MangadexPages and its two goroutines
    cancelled,       \* cancel() of root.go:80 has been called
    main,            \* the calling goroutine of MangadexPages
    progress         \* calls received by the formats.Progress reporter

vars == <<chapterList, catalog, pageBudget, quirky, faulty, serial, feeder, chaptersClosed,
          dp, pw, errP, pathsClosed, di, iw, errI, imagesClosed, outer,
          cancelled, main, progress>>

\* ------------------------------------------------------------ data records
Nil == <<>>

NoChapter == 0

NoError == [kind |-> "none", chapter |-> 0, image |-> 0, cause |-> "none"]

Canceled == [kind |-> "canceled", chapter |-> 0, image |-> 0, cause |-> "none"]

PathsError(chapter) ==
    [kind |-> "paths", chapter |-> chapter.Identifier, image |-> 0, cause |-> "fetch"]

\* the error of getImage returned without the chapter and page identifiers
ImageErrorBare(path, cause) ==
    [kind |-> "image", chapter |-> 0, image |-> 0, cause |-> cause]

ImageError(path, cause) ==
    [kind |-> "image", chapter |-> path.chapterID, image |-> path.imageID, cause |-> cause]

\* ChapterInfo: the chapter at position i of the list, with its volume.
Chapter(i) == [ID |-> i, Identifier |-> i, VolumeIdentifier |-> 10 + ((i + 1) \div 2)]

\* PathItem produced by the catalog client for page j of a chapter.
PathItem(chapter, j) ==
    [URL |-> <<chapter.ID, j>>, imageID |-> j,
     chapterID |-> chapter.Identifier, volumeID |-> chapter.VolumeIdentifier]

\* The page manifest of n pages resolved for a chapter.
FetchPaths(chapter, n) == [j \in 1..n |-> PathItem(chapter, j)]

WithImageSwapped(i, img) ==
    [Image |-> img, chapterID |-> i.volumeID, volumeID |-> i.chapterID, imageID |-> i.imageID]

WithImage(i, img) ==
    [Image |-> img, chapterID |-> i.chapterID, volumeID |-> i.volumeID, imageID |-> i.imageID]

Bitmap(url) == <<"bitmap", url>>

\* errOnce.Do of errgroup: only the first non-nil error is kept.
RecordErr(cur, e) == IF cur = NoError /\ e # NoError THEN e ELSE cur

Max(S) == IF S = {} THEN 0 ELSE CHOOSE x \in S : \A y \in S : y <= x

Chapters == 1..Len(chapterList)

URLs == DOMAIN iw


NoPath == [URL |-> <<0, 0>>, imageID |-> 0, chapterID |-> 0, volumeID |-> 0]

\* --------------------------------------------------------------- contexts
\* ctx of MangadexPages after errgroup.WithContext: done once cancel() ran or
\* the outer group recorded an error.
CtxMain == cancelled \/ outer.err # NoError

\* ctx inside chaptersToPaths: child of CtxMain, also done on the group's
\* first error.
CtxP == CtxMain \/ errP # NoError

\* ctx inside pathsToImages.
CtxI == CtxMain \/ errI # NoError

\* ------------------------------------------------------------- errgroups
LimitPOff == maxJobsChapter + 2

LimitP == maxJobsChapter + 1

LimitIOff == maxJobsImage + 2

LimitI == maxJobsImage + 1

ActiveP == {i \in Chapters : pw[i].pc \notin {"idle", "done"}}

ActiveI == {u \in URLs : iw[u].pc \notin {"idle", "done"}}

\* tokens held in the semaphore of each group: the dispatcher holds one
\* from eg.Go until it returns, each running worker holds one.
TokensP == (IF dp.pc = "done" THEN 0 ELSE 1) + Cardinality(ActiveP)

TokensI == (IF di.pc = "done" THEN 0 ELSE 1) + Cardinality(ActiveI)

\* eg.Wait() of a stage can return: dispatcher and all workers have finished.
StageDoneP == dp.pc = "done" /\ ActiveP = {}

StageDoneI == di.pc = "done" /\ ActiveI = {}

\* ---------------------------------------------------- request executor
\* A serial executor answers the oldest outstanding request of a stage and
\* nothing else until that worker has finished, and answers a request whose
\* context is done with the context's error.
SerialTurnP(i) == serial => \A j \in ActiveP : j >= i

Before(u, v) == u[1] < v[1] \/ (u[1] = v[1] /\ u[2] < v[2])

SerialTurnI(u) == serial => \A v \in ActiveI : ~Before(v, u)

\* What one request for a page can come back as.
RespImage(u) == [doErr |-> FALSE, status |-> StatusOK, img |-> Bitmap(u), decodeErr |-> FALSE]

RespStatus == [doErr |-> FALSE, status |-> 404, img |-> Nil, decodeErr |-> FALSE]

RespDoErr == [doErr |-> TRUE, status |-> 0, img |-> Nil, decodeErr |-> FALSE]

\* the quirk: a 200 body that decodes to no image and no error
RespQuirk == [doErr |-> FALSE, status |-> StatusOK, img |-> Nil, decodeErr |-> FALSE]

\* a 200 body the decoder rejects with an error
RespDecodeErr == [doErr |-> FALSE, status |-> StatusOK, img |-> Nil, decodeErr |-> TRUE]

Responses(u) ==
    IF serial /\ CtxI THEN {RespDoErr}
    ELSE {RespImage(u)}
            \cup (IF u \in faulty.status THEN {RespStatus} ELSE {})
            \cup (IF u \in faulty.transport THEN {RespDoErr} ELSE {})
            \cup (IF CtxI THEN {RespDoErr} ELSE {})
            \cup (IF u \in faulty.decode THEN {RespDecodeErr} ELSE {})
            \cup (IF u \in quirky THEN {RespQuirk} ELSE {})

\* ------------------------------------------------------------- getImage
RetryNever(img, try) == FALSE

\* root.go:223
Retry(img, try) == img = Nil /\ try <= MaxTry

\* One call of getImage up to its return or its recursive call.
GetImage(resp, try) ==
    IF resp.doErr THEN [kind |-> "error", cause |-> "do", img |-> Nil]
    ELSE IF resp.status # StatusOK THEN [kind |-> "error", cause |-> "status", img |-> Nil]
    ELSE IF Retry(resp.img, try) THEN [kind |-> "retry", cause |-> "none", img |-> Nil]
    ELSE IF resp.decodeErr THEN [kind |-> "error", cause |-> "decode", img |-> Nil]
    ELSE [kind |-> "image", cause |-> "none", img |-> resp.img]

\* ------------------------------------------------------------------ Init
\* the URLs the catalog can name
PageURLs == UNION {{<<i, j>> : j \in 1..Max(catalog[i])} : i \in Chapters}

Start ==
    /\ feeder = [pc |-> "send", fed |-> 0]
    /\ chaptersClosed = FALSE
    /\ dp = [pc |-> "select", hold |-> NoChapter]
    /\ pw = [i \in Chapters |-> [pc |-> "idle", n |-> 0, k |-> 0, err |-> NoError]]
    /\ errP = NoError
    /\ pathsClosed = FALSE
    /\ di = [pc |-> "select", hold |-> NoPath]
    /\ iw = [u \in PageURLs
             |-> [pc |-> "idle", path |-> NoPath, try |-> 0, img |-> Nil, err |-> NoError]]
    /\ errI = NoError
    /\ imagesClosed = FALSE
    /\ outer = [err |-> NoError, waitedP |-> FALSE, waitedI |-> FALSE]
    /\ cancelled = FALSE
    /\ main = [pc |-> "collect", results |-> EmptyBag, ret |-> [nil |-> TRUE, results |-> EmptyBag, err |-> NoError]]
    /\ progress = [incChapter |-> 0, incPage |-> 0, addChapter |-> 0, addImage |-> 0]

\* every list of at most MaxItems chapters, with manifests of any lengths
\* that keep chapters plus pages within MaxItems; every request may fail
InitSmall ==
    /\ \E n \in 0..MaxItems :
        /\ chapterList = [i \in 1..n |-> Chapter(i)]
        /\ catalog = [i \in 1..n |-> 0..(MaxItems - n)]
        /\ pageBudget = MaxItems - n
    /\ quirky = {}
    /\ faulty = [chapters |-> Chapters, status |-> PageURLs, transport |-> PageURLs,
                 decode |-> {}]
    /\ serial = FALSE
    /\ Start

\* the manifest lengths of the two chapters of the worked example
ExamplePages == <<3, 2>>

\* the worked example: two chapters with 3 and 2 pages, behind a serial
\* request executor; every request may fail
InitExample ==
    /\ chapterList = [i \in 1..Len(ExamplePages) |-> Chapter(i)]
    /\ catalog = [i \in 1..Len(ExamplePages) |-> {ExamplePages[i]}]
    /\ pageBudget = ExamplePages[1] + ExamplePages[2]
    /\ quirky = {}
    /\ faulty = [chapters |-> Chapters, status |-> PageURLs, transport |-> {},
                 decode |-> {}]
    /\ serial = TRUE
    /\ Start

Init == InitSmall \/ InitExample

\* lists within QuirkItems behind a serial request executor; the first page
\* either answers null bodies without a decode error, or bodies the decoder
\* rejects, and may answer a non-200 status at any attempt
InitQuirk ==
    /\ \E n \in 1..QuirkItems :
        /\ chapterList = [i \in 1..n |-> Chapter(i)]
        /\ catalog = [i \in 1..n |-> 0..(QuirkItems - n)]
        /\ pageBudget = QuirkItems - n
    /\ \E rejects \in BOOLEAN :
        /\ quirky = IF rejects THEN {} ELSE {<<1, 1>>} \cap PageURLs
        /\ faulty = [chapters |-> Chapters, status |-> {<<1, 1>>} \cap PageURLs,
                     transport |-> {},
                     decode |-> IF rejects THEN {<<1, 1>>} \cap PageURLs ELSE {}]
    /\ serial = TRUE
    /\ Start

\* more chapters than maxJobsChapter, the first with more pages than
\* maxJobsImage, behind a serial request executor; the last chapter's
\* manifest fetch and one page's status may fail
InitLimit ==
    /\ chapterList = [i \in 1..(maxJobsChapter + ExtraChapters) |-> Chapter(i)]
    /\ catalog = [i \in 1..(maxJobsChapter + ExtraChapters) |->
                    IF i = 1 THEN {maxJobsImage + ExtraPages} ELSE {0}]
    /\ pageBudget = maxJobsImage + ExtraPages
    /\ quirky = {}
    /\ faulty = [chapters |-> {maxJobsChapter + ExtraChapters},
                 status |-> {<<1, maxJobsImage>>}, transport |-> {}, decode |-> {}]
    /\ serial = TRUE
    /\ Start

\* more chapters than maxJobsChapter, none with a page, behind a serial
\* request executor; the first manifest fetch may fail while the dispatcher
\* waits in eg.Go for a free token
InitBlocked ==
    /\ chapterList = [i \in 1..(maxJobsChapter + ExtraChapters) |-> Chapter(i)]
    /\ catalog = [i \in 1..(maxJobsChapter + ExtraChapters) |-> {0}]
    /\ pageBudget = 0
    /\ quirky = {}
    /\ faulty = [chapters |-> {1}, status |-> {}, transport |-> {}, decode |-> {}]
    /\ serial = TRUE
    /\ Start

\* ---------------------------------------------------------------- feeder
\* root.go:88  chapters <- chapter, received by the dispatcher's select
\* (root.go:128).
FeederSend ==
    /\ feeder.pc = "send"
    /\ feeder.fed < Len(chapterList)
    /\ dp.pc = "select"
    /\ feeder' = [pc |-> "inc", fed |-> feeder.fed + 1]
    /\ dp' = [pc |-> "go", hold |-> feeder.fed + 1]
    /\ UNCHANGED <<chapterList, catalog, pageBudget, quirky, faulty, serial, chaptersClosed, pw, errP,
                   pathsClosed, di, iw, errI, imagesClosed, outer, cancelled, main, progress>>

\* the feeder forgets to report the chapter
FeederIncreaseMissing ==
    /\ feeder.pc = "inc"
    /\ feeder' = [feeder EXCEPT !.pc = "send"]
    /\ UNCHANGED <<chapterList, catalog, pageBudget, quirky, faulty, serial, chaptersClosed,
                   dp, pw, errP, pathsClosed, di, iw, errI, imagesClosed, outer, cancelled,
                   main, progress>>

\* root.go:89  p.Increase(1)
FeederIncrease ==
    /\ feeder.pc = "inc"
    /\ feeder' = [feeder EXCEPT !.pc = "send"]
    /\ progress' = [progress EXCEPT !.incChapter = @ + 1]
    /\ UNCHANGED <<chapterList, catalog, pageBudget, quirky, faulty, serial, chaptersClosed, dp, pw, errP,
                   pathsClosed, di, iw, errI, imagesClosed, outer, cancelled, main>>

\* root.go:91  close(chapters)
FeederClose ==
    /\ feeder.pc = "send"
    /\ feeder.fed = Len(chapterList)
    /\ feeder' = [feeder EXCEPT !.pc = "done"]
    /\ chaptersClosed' = TRUE
    /\ UNCHANGED <<chapterList, catalog, pageBudget, quirky, faulty, serial, dp, pw, errP, pathsClosed, di,
                   iw, errI, imagesClosed, outer, cancelled, main, progress>>

\* ------------------------------------------------------- chaptersToPaths
\* root.go:126-127  the dispatcher's select takes <-ctx.Done()
DispPCanceled ==
    /\ dp.pc = "select"
    /\ CtxP
    /\ dp' = [dp EXCEPT !.pc = "done"]
    /\ errP' = RecordErr(errP, Canceled)
    /\ UNCHANGED <<chapterList, catalog, pageBudget, quirky, faulty, serial, feeder, chaptersClosed, pw,
                   pathsClosed, di, iw, errI, imagesClosed, outer, cancelled, main, progress>>

\* root.go:128-131  the dispatcher's select finds chapters closed
DispPClosed ==
    /\ dp.pc = "select"
    /\ chaptersClosed
    /\ dp' = [dp EXCEPT !.pc = "done"]
    /\ UNCHANGED <<chapterList, catalog, pageBudget, quirky, faulty, serial, feeder, chaptersClosed, pw, errP,
                   pathsClosed, di, iw, errI, imagesClosed, outer, cancelled, main, progress>>

\* root.go:132  eg.Go blocks until the semaphore has a free token
DispPGo ==
    /\ dp.pc = "go"
    /\ TokensP < LimitP
    /\ pw' = [pw EXCEPT ![dp.hold].pc = "fetch"]
    /\ dp' = [pc |-> "select", hold |-> NoChapter]
    /\ UNCHANGED <<chapterList, catalog, pageBudget, quirky, faulty, serial, feeder, chaptersClosed, errP,
                   pathsClosed, di, iw, errI, imagesClosed, outer, cancelled, main, progress>>

\* root.go:133, 137-139, 147  FetchPaths answers a manifest of n pages;
\* p.Add(1); with no page the worker returns nil at once.
PathFetchOK(i, n) ==
    /\ pw[i].pc = "fetch"
    /\ n \in catalog[i]
    /\ n <= pageBudget
    /\ ~(serial /\ CtxP)
    /\ pageBudget' = pageBudget - n
    /\ SerialTurnP(i)
    /\ pw' = [pw EXCEPT ![i] = [pc |-> IF n = 0 THEN "done" ELSE "emit",
                                n |-> n, k |-> 0, err |-> NoError]]
    /\ progress' = [progress EXCEPT !.addChapter = @ + 1]
    /\ UNCHANGED <<chapterList, catalog, quirky, faulty, serial, feeder, chaptersClosed, dp, errP,
                   pathsClosed, di, iw, errI, imagesClosed, outer, cancelled, main>>

\* the failing worker returns its error without calling cancel()
PathFetchErrNoCancel(i) ==
    /\ pw[i].pc = "fetch"
    /\ i \in faulty.chapters \/ CtxP
    /\ SerialTurnP(i)
    /\ pw' = [pw EXCEPT ![i].pc = "ret", ![i].err = PathsError(chapterList[i])]
    /\ UNCHANGED <<chapterList, catalog, pageBudget, quirky, faulty, serial, feeder,
                   chaptersClosed, dp, errP, pathsClosed, di, iw, errI, imagesClosed, outer,
                   cancelled, main, progress>>

\* root.go:133-136  FetchPaths answers an error: the wrapped error becomes the
\* return value and the deferred cancel() runs before the function returns.
PathFetchErr(i) ==
    /\ pw[i].pc = "fetch"
    /\ i \in faulty.chapters \/ CtxP
    /\ SerialTurnP(i)
    /\ pw' = [pw EXCEPT ![i].pc = "ret", ![i].err = PathsError(chapterList[i])]
    /\ cancelled' = TRUE
    /\ UNCHANGED <<chapterList, catalog, pageBudget, quirky, faulty, serial, feeder, chaptersClosed, dp, errP,
                   pathsClosed, di, iw, errI, imagesClosed, outer, main, progress>>

\* the worker function has returned its error to the errgroup
PathReturnErr(i) ==
    /\ pw[i].pc = "ret"
    /\ errP' = RecordErr(errP, pw[i].err)
    /\ pw' = [pw EXCEPT ![i].pc = "done"]
    /\ UNCHANGED <<chapterList, catalog, pageBudget, quirky, faulty, serial, feeder, chaptersClosed, dp,
                   pathsClosed, di, iw, errI, imagesClosed, outer, cancelled, main, progress>>

\* a handoff that does not watch ctx.Done(): a plain ch <- path
PathEmitNeverCanceled(i) == FALSE /\ UNCHANGED vars

\* a handoff that returns nil when it sees ctx.Done()
PathEmitCanceledSilently(i) ==
    /\ pw[i].pc = "emit"
    /\ CtxP
    /\ pw' = [pw EXCEPT ![i].pc = "done"]
    /\ UNCHANGED <<chapterList, catalog, pageBudget, quirky, faulty, serial, feeder,
                   chaptersClosed, dp, errP, pathsClosed, di, iw, errI, imagesClosed, outer,
                   cancelled, main, progress>>

\* root.go:141-142  the handoff select takes <-ctx.Done()
PathEmitCanceled(i) ==
    /\ pw[i].pc = "emit"
    /\ CtxP
    /\ pw' = [pw EXCEPT ![i].pc = "done", ![i].err = Canceled]
    /\ errP' = RecordErr(errP, Canceled)
    /\ UNCHANGED <<chapterList, catalog, pageBudget, quirky, faulty, serial, feeder, chaptersClosed, dp,
                   pathsClosed, di, iw, errI, imagesClosed, outer, cancelled, main, progress>>

\* root.go:143  ch <- path, received by the select of the image dispatcher
\* (root.go:176)
PathSend(i) ==
    /\ pw[i].pc = "emit"
    /\ di.pc = "select"
    /\ pw' = [pw EXCEPT ![i].pc = "inc", ![i].k = @ + 1]
    /\ di' = [pc |-> "go", hold |-> FetchPaths(chapterList[i], pw[i].n)[pw[i].k + 1]]
    /\ UNCHANGED <<chapterList, catalog, pageBudget, quirky, faulty, serial, feeder, chaptersClosed, dp, errP,
                   pathsClosed, iw, errI, imagesClosed, outer, cancelled, main, progress>>

\* root.go:144, 147  p.Increase(1); after the last path the worker returns nil
PathIncrease(i) ==
    /\ pw[i].pc = "inc"
    /\ pw' = [pw EXCEPT ![i].pc = IF pw[i].k = pw[i].n THEN "done" ELSE "emit"]
    /\ progress' = [progress EXCEPT !.incPage = @ + 1]
    /\ UNCHANGED <<chapterList, catalog, pageBudget, quirky, faulty, serial, feeder, chaptersClosed, dp, errP,
                   pathsClosed, di, iw, errI, imagesClosed, outer, cancelled, main>>

\* a closer that waits for the dispatcher only
CloserPEarly ==
    /\ ~pathsClosed
    /\ dp.pc = "done"
    /\ pathsClosed' = TRUE
    /\ UNCHANGED <<chapterList, catalog, pageBudget, quirky, faulty, serial, feeder,
                   chaptersClosed, dp, pw, errP, di, iw, errI, imagesClosed, outer, cancelled,
                   main, progress>>

\* root.go:154-157  eg.Wait(); close(ch)
CloserP ==
    /\ ~pathsClosed
    /\ StageDoneP
    /\ pathsClosed' = TRUE
    /\ UNCHANGED <<chapterList, catalog, pageBudget, quirky, faulty, serial, feeder, chaptersClosed, dp, pw,
                   errP, di, iw, errI, imagesClosed, outer, cancelled, main, progress>>

\* root.go:95  eg.Go(childEg.Wait) for the path stage
OuterWaitP ==
    /\ ~outer.waitedP
    /\ StageDoneP
    /\ outer' = [outer EXCEPT !.waitedP = TRUE, !.err = RecordErr(@, errP)]
    /\ UNCHANGED <<chapterList, catalog, pageBudget, quirky, faulty, serial, feeder, chaptersClosed, dp, pw,
                   errP, pathsClosed, di, iw, errI, imagesClosed, cancelled, main, progress>>

\* --------------------------------------------------------- pathsToImages
\* root.go:174-175  the dispatcher's select takes <-ctx.Done()
DispICanceled ==
    /\ di.pc = "select"
    /\ CtxI
    /\ di' = [di EXCEPT !.pc = "done"]
    /\ errI' = RecordErr(errI, Canceled)
    /\ UNCHANGED <<chapterList, catalog, pageBudget, quirky, faulty, serial, feeder, chaptersClosed, dp, pw,
                   errP, pathsClosed, iw, imagesClosed, outer, cancelled, main, progress>>

\* root.go:176-179  the dispatcher's select finds paths closed
DispIClosed ==
    /\ di.pc = "select"
    /\ pathsClosed
    /\ di' = [di EXCEPT !.pc = "done"]
    /\ UNCHANGED <<chapterList, catalog, pageBudget, quirky, faulty, serial, feeder, chaptersClosed, dp, pw,
                   errP, pathsClosed, iw, errI, imagesClosed, outer, cancelled, main, progress>>

\* root.go:180  eg.Go blocks until the semaphore has a free token
DispIGo ==
    /\ di.pc = "go"
    /\ TokensI < LimitI
    /\ iw' = [iw EXCEPT ![di.hold.URL] = [pc |-> "fetch", path |-> di.hold, try |-> 0,
                                          img |-> Nil, err |-> NoError]]
    /\ di' = [pc |-> "select", hold |-> NoPath]
    /\ UNCHANGED <<chapterList, catalog, pageBudget, quirky, faulty, serial, feeder, chaptersClosed, dp, pw,
                   errP, pathsClosed, errI, imagesClosed, outer, cancelled, main, progress>>

\* root.go:181-184, 206-230  one request of getImage comes back as resp; on
\* an error the wrapped error becomes the worker's return value and the
\* deferred cancel() runs before the function returns.
ImgAttempt(u, resp) ==
    /\ iw[u].pc = "fetch"
    /\ SerialTurnI(u)
    /\ resp \in Responses(u)
    /\ LET r == GetImage(resp, iw[u].try) IN
        /\ iw' = [iw EXCEPT ![u] =
                 CASE r.kind = "retry" -> [@ EXCEPT !.try = @ + 1]
                   [] r.kind = "error" ->
                        [@ EXCEPT !.pc = "ret", !.err = ImageError(iw[u].path, r.cause)]
                   [] OTHER -> [@ EXCEPT !.pc = "emit", !.img = r.img]]
        /\ cancelled' = (cancelled \/ r.kind = "error")
    /\ UNCHANGED <<chapterList, catalog, pageBudget, quirky, faulty, serial, feeder, chaptersClosed, dp, pw, errP,
                   pathsClosed, di, errI, imagesClosed, outer, main, progress>>

\* the worker function has returned its error to the errgroup
ImgReturnErr(u) ==
    /\ iw[u].pc = "ret"
    /\ errI' = RecordErr(errI, iw[u].err)
    /\ iw' = [iw EXCEPT ![u].pc = "done"]
    /\ UNCHANGED <<chapterList, catalog, pageBudget, quirky, faulty, serial, feeder, chaptersClosed, dp, pw,
                   errP, pathsClosed, di, imagesClosed, outer, cancelled, main, progress>>

\* root.go:187-188  the handoff select takes <-ctx.Done()
ImgEmitCanceled(u) ==
    /\ iw[u].pc = "emit"
    /\ CtxI
    /\ iw' = [iw EXCEPT ![u].pc = "done", ![u].err = Canceled]
    /\ errI' = RecordErr(errI, Canceled)
    /\ UNCHANGED <<chapterList, catalog, pageBudget, quirky, faulty, serial, feeder, chaptersClosed, dp, pw,
                   errP, pathsClosed, di, imagesClosed, outer, cancelled, main, progress>>

\* root.go:189-190  ch <- path.WithImage(image), received by the collector
\* loop; root.go:101-103  p.Add(1); results = append(results, image)
ImgSend(u) ==
    /\ iw[u].pc = "emit"
    /\ main.pc = "collect"
    /\ ~imagesClosed
    /\ iw' = [iw EXCEPT ![u].pc = "done"]
    /\ main' = [main EXCEPT !.results = @ (+) SetToBag({WithImage(iw[u].path, iw[u].img)})]
    /\ progress' = [progress EXCEPT !.addImage = @ + 1]
    /\ UNCHANGED <<chapterList, catalog, pageBudget, quirky, faulty, serial, feeder, chaptersClosed, dp, pw,
                   errP, pathsClosed, di, errI, imagesClosed, outer, cancelled>>

\* root.go:198-201  eg.Wait(); close(ch)
CloserI ==
    /\ ~imagesClosed
    /\ StageDoneI
    /\ imagesClosed' = TRUE
    /\ UNCHANGED <<chapterList, catalog, pageBudget, quirky, faulty, serial, feeder, chaptersClosed, dp, pw,
                   errP, pathsClosed, di, iw, errI, outer, cancelled, main, progress>>

\* root.go:98  eg.Go(childEg.Wait) for the image stage
OuterWaitI ==
    /\ ~outer.waitedI
    /\ StageDoneI
    /\ outer' = [outer EXCEPT !.waitedI = TRUE, !.err = RecordErr(@, errI)]
    /\ UNCHANGED <<chapterList, catalog, pageBudget, quirky, faulty, serial, feeder, chaptersClosed, dp, pw,
                   errP, pathsClosed, di, iw, errI, imagesClosed, cancelled, main, progress>>

\* ---------------------------------------------------------- MangadexPages
\* root.go:101  the range loop sees images closed
CollectorEnd ==
    /\ main.pc = "collect"
    /\ imagesClosed
    /\ main' = [main EXCEPT !.pc = "wait"]
    /\ UNCHANGED <<chapterList, catalog, pageBudget, quirky, faulty, serial, feeder, chaptersClosed, dp, pw,
                   errP, pathsClosed, di, iw, errI, imagesClosed, outer, cancelled, progress>>

\* root.go:106-110 what MangadexPages returns for the group's error
ReturnPartial(results, err) == [nil |-> FALSE, results |-> results, err |-> err]

ReturnValue(results, err) ==
    IF err # NoError THEN [nil |-> TRUE, results |-> EmptyBag, err |-> err]
    ELSE [nil |-> FALSE, results |-> results, err |-> NoError]

\* root.go:106-110  eg.Wait() returns; root.go:81 the deferred cancel() runs
Return ==
    /\ main.pc = "wait"
    /\ outer.waitedP /\ outer.waitedI
    /\ main' = [main EXCEPT !.pc = "returned", !.ret = ReturnValue(main.results, outer.err)]
    /\ cancelled' = TRUE
    /\ UNCHANGED <<chapterList, catalog, pageBudget, quirky, faulty, serial, feeder, chaptersClosed, dp, pw,
                   errP, pathsClosed, di, iw, errI, imagesClosed, outer, progress>>

Next ==
    \/ FeederSend
    \/ FeederIncrease
    \/ FeederClose
    \/ DispPCanceled
    \/ DispPClosed
    \/ DispPGo
    \/ \E i \in Chapters : \E n \in 0..Max(catalog[i]) : PathFetchOK(i, n)
    \/ \E i \in Chapters : PathFetchErr(i)
    \/ \E i \in Chapters : PathReturnErr(i)
    \/ \E i \in Chapters : PathEmitCanceled(i)
    \/ \E i \in Chapters : PathSend(i)
    \/ \E i \in Chapters : PathIncrease(i)
    \/ CloserP
    \/ OuterWaitP
    \/ DispICanceled
    \/ DispIClosed
    \/ DispIGo
    \/ \E u \in URLs : \E resp \in Responses(u) : ImgAttempt(u, resp)
    \/ \E u \in URLs : ImgReturnErr(u)
    \/ \E u \in URLs : ImgEmitCanceled(u)
    \/ \E u \in URLs : ImgSend(u)
    \/ CloserI
    \/ OuterWaitI
    \/ CollectorEnd
    \/ Return

Spec == Init /\ [][Next]_vars

SpecQuirk == InitQuirk /\ [][Next]_vars

SpecLimit == InitLimit /\ [][Next]_vars

\* every goroutine that can take a step is eventually scheduled
FairSpec == (Init \/ InitBlocked) /\ [][Next]_vars /\ WF_vars(Next)

\* --------------------------------------------------------- MangadexCovers
\* A run of MangadexCovers uses the same image stage. The calling goroutine
\* keeps covers and results in main; the cover feeder takes the place of the
\* path stage, and pathsClosed stands for close(coverPaths).
CoversError == [kind |-> "covers", chapter |-> 0, image |-> 0, cause |-> "fetch"]

\* the locator of the j-th cover of the manga
Cover(j) == [URL |-> <<0, j>>, imageID |-> 0, chapterID |-> 0, volumeID |-> j]

\* the cover manifest of n covers
FetchCovers(n) == [j \in 1..n |-> Cover(j)]

CoverURLs == {<<0, j>> : j \in 1..MaxCovers}

\* the zero value of an ImageItem
NoImage == [Image |-> Nil, chapterID |-> 0, volumeID |-> 0, imageID |-> 0]

\* make(md.ImageList, n): a list of n zero-valued entries
MakeImageList(n) == [item \in (IF n > 0 THEN {NoImage} ELSE {}) |-> n]

\* MangadexCovers has been called; any cover request may fail
InitCovers ==
    /\ chapterList = <<>>
    /\ catalog = <<>>
    /\ pageBudget = 0
    /\ quirky = {}
    /\ faulty = [chapters |-> {}, status |-> CoverURLs, transport |-> CoverURLs,
                 decode |-> {}]
    /\ serial = FALSE
    /\ feeder = [pc |-> "idle", fed |-> 0]
    /\ chaptersClosed = FALSE
    /\ dp = [pc |-> "done", hold |-> NoChapter]
    /\ pw = <<>>
    /\ errP = NoError
    /\ pathsClosed = FALSE
    /\ di = [pc |-> "idle", hold |-> NoPath]
    /\ iw = [u \in CoverURLs
             |-> [pc |-> "idle", path |-> NoPath, try |-> 0, img |-> Nil, err |-> NoError]]
    /\ errI = NoError
    /\ imagesClosed = FALSE
    /\ outer = [err |-> NoError, waitedP |-> FALSE, waitedI |-> FALSE]
    /\ cancelled = FALSE
    /\ main = [pc |-> "fetch", covers |-> <<>>, results |-> EmptyBag,
               ret |-> [nil |-> TRUE, results |-> EmptyBag, err |-> NoError]]
    /\ progress = [incChapter |-> 0, incPage |-> 0, addChapter |-> 0, addImage |-> 0]

\* root.go:50-53, 48  FetchCovers fails: return nil, err; the deferred
\* cancel() runs
FetchCoversErr ==
    /\ main.pc = "fetch"
    /\ main' = [main EXCEPT !.pc = "returned", !.ret = ReturnValue(EmptyBag, CoversError)]
    /\ cancelled' = TRUE
    /\ UNCHANGED <<chapterList, catalog, pageBudget, quirky, faulty, serial, feeder,
                   chaptersClosed, dp, pw, errP, pathsClosed, di, iw, errI, imagesClosed,
                   outer, progress>>

\* root.go:50, 55-66  FetchCovers answers n covers; the feeder and the image
\* stage are started; results := make(md.ImageList, len(covers))
FetchCoversOK(n) ==
    /\ main.pc = "fetch"
    /\ main' = [main EXCEPT !.pc = "collect", !.covers = FetchCovers(n),
                            !.results = MakeImageList(n)]
    /\ feeder' = [feeder EXCEPT !.pc = "send"]
    /\ di' = [di EXCEPT !.pc = "select"]
    /\ UNCHANGED <<chapterList, catalog, pageBudget, quirky, faulty, serial, chaptersClosed,
                   dp, pw, errP, pathsClosed, iw, errI, imagesClosed, outer, cancelled,
                   progress>>

\* root.go:58  coverPaths <- path, received by the select of the image
\* dispatcher (root.go:176)
CoverFeederSend ==
    /\ feeder.pc = "send"
    /\ feeder.fed < Len(main.covers)
    /\ di.pc = "select"
    /\ feeder' = [pc |-> "inc", fed |-> feeder.fed + 1]
    /\ di' = [pc |-> "go", hold |-> main.covers[feeder.fed + 1]]
    /\ UNCHANGED <<chapterList, catalog, pageBudget, quirky, faulty, serial, chaptersClosed,
                   dp, pw, errP, pathsClosed, iw, errI, imagesClosed, outer, cancelled,
                   main, progress>>

\* root.go:59  p.Increase(1)
CoverFeederIncrease ==
    /\ feeder.pc = "inc"
    /\ feeder' = [feeder EXCEPT !.pc = "send"]
    /\ progress' = [progress EXCEPT !.incPage = @ + 1]
    /\ UNCHANGED <<chapterList, catalog, pageBudget, quirky, faulty, serial, chaptersClosed,
                   dp, pw, errP, pathsClosed, di, iw, errI, imagesClosed, outer, cancelled,
                   main>>

\* root.go:61  close(coverPaths)
CoverFeederClose ==
    /\ feeder.pc = "send"
    /\ feeder.fed = Len(main.covers)
    /\ feeder' = [feeder EXCEPT !.pc = "done"]
    /\ pathsClosed' = TRUE
    /\ UNCHANGED <<chapterList, catalog, pageBudget, quirky, faulty, serial, chaptersClosed,
                   dp, pw, errP, di, iw, errI, imagesClosed, outer, cancelled, main,
                   progress>>

\* root.go:72-76  eg.Wait() of the image stage's group returns; root.go:48
\* the deferred cancel() runs
CoversReturn ==
    /\ main.pc = "wait"
    /\ StageDoneI
    /\ main' = [main EXCEPT !.pc = "returned", !.ret = ReturnValue(main.results, errI)]
    /\ cancelled' = TRUE
    /\ UNCHANGED <<chapterList, catalog, pageBudget, quirky, faulty, serial, feeder,
                   chaptersClosed, dp, pw, errP, pathsClosed, di, iw, errI, imagesClosed,
                   outer, progress>>

NextCovers ==
    \/ FetchCoversErr
    \/ \E n \in 0..MaxCovers : FetchCoversOK(n)
    \/ CoverFeederSend
    \/ CoverFeederIncrease
    \/ CoverFeederClose
    \/ DispICanceled
    \/ DispIClosed
    \/ DispIGo
    \/ \E u \in URLs : \E resp \in Responses(u) : ImgAttempt(u, resp)
    \/ \E u \in URLs : ImgReturnErr(u)
    \/ \E u \in URLs : ImgEmitCanceled(u)
    \/ \E u \in URLs : ImgSend(u)
    \/ CloserI
    \/ CollectorEnd
    \/ CoversReturn

SpecCovers == InitCovers /\ [][NextCovers]_vars

\* ================================================================ claims
\* a manifest resolution or an image fetch+decode has failed
FetchFailed ==
    \/ \E i \in Chapters : pw[i].err.kind = "paths"
    \/ \E u \in URLs : iw[u].err.kind = "image"

\* the image a page of a chapter must be delivered as
ExpectedImage(i, j) ==
    [Image |-> Bitmap(<<i, j>>), imageID |-> j,
     chapterID |-> chapterList[i].Identifier, volumeID |-> chapterList[i].VolumeIdentifier]

ExpectedResults ==
    SetToBag(UNION {{ExpectedImage(i, j) : j \in 1..pw[i].n} : i \in Chapters})

\* C1: when MangadexPages has returned and no manifest resolution and no image
\* fetch+decode failed, the error is nil and the result holds exactly one
\* image per page of every chapter, each with the chapter, volume and page
\* identifiers of its page locator.
C1_AllPagesOnceWithProvenance ==
    (main.pc = "returned" /\ ~FetchFailed) =>
        /\ main.ret.err = NoError
        /\ ~main.ret.nil
        /\ \A i \in Chapters : pw[i].pc = "done"
        /\ main.ret.results = ExpectedResults

C1_Witness ==
    /\ main.pc = "returned"
    /\ ~FetchFailed
    /\ BagCardinality(main.ret.results) >= 2
    /\ main.ret.results = ExpectedResults

\* C2: the error MangadexPages returns is never the internal "canceled"
\* unwind error.
C2_NeverReturnsCanceled ==
    main.pc = "returned" => main.ret.err.kind # "canceled"

\* C3: when MangadexPages has returned after a manifest resolution or an
\* image fetch failed, it returned a non-nil error and a nil result.
C3_ErrorAndNilResult ==
    (main.pc = "returned" /\ FetchFailed) =>
        /\ main.ret.err # NoError
        /\ main.ret.nil
        /\ main.ret.results = EmptyBag

C3_Witness ==
    /\ main.pc = "returned"
    /\ FetchFailed
    /\ main.results # EmptyBag
    /\ main.ret.nil

\* C4: a chapter whose manifest resolution failed has no page locator sent on
\* the path channel and no image sent on the image channel, and cancellation
\* has been signalled.
C4_FailedChapterEmitsNothing ==
    \A i \in Chapters :
        pw[i].err.kind = "paths" =>
            /\ pw[i].k = 0
            /\ di.hold.chapterID # chapterList[i].Identifier
            /\ \A u \in URLs : u[1] = i => iw[u].pc = "idle"
            /\ \A item \in BagToSet(main.results) :
                    item.chapterID # chapterList[i].Identifier
            /\ cancelled

C4_Witness ==
    \E i \in Chapters :
        /\ pw[i].err.kind = "paths"
        /\ pw[i].pc = "done"
        /\ main.results # EmptyBag
        /\ pathsClosed

\* C5: at most maxJobsChapter manifest workers and at most maxJobsImage image
\* workers are active at any time; with its dispatcher a stage never holds
\* more than maxJobsChapter + 1 / maxJobsImage + 1 tokens.
C5_BoundedWorkers ==
    /\ Cardinality(ActiveP) <= maxJobsChapter
    /\ Cardinality(ActiveI) <= maxJobsImage
    /\ TokensP <= maxJobsChapter + 1
    /\ TokensI <= maxJobsImage + 1

\* both pools are full and both dispatchers wait in eg.Go for a free token
C5_Witness ==
    /\ Cardinality(ActiveP) = maxJobsChapter
    /\ dp.pc = "go"
    /\ Cardinality(ActiveI) = maxJobsImage
    /\ di.pc = "go"

\* C6: under fair scheduling every run of MangadexPages eventually returns.
C6_EventuallyReturns == <>(main.pc = "returned")

\* a cancelled run has returned although a path worker had to unwind from its
\* handoff and the feeder is still blocked on chapters
C6_Witness ==
    /\ main.pc = "returned"
    /\ \E i \in Chapters : pw[i].err = Canceled /\ pw[i].k < pw[i].n
    /\ \E u \in URLs : iw[u].err.kind = "image"

\* the items delivered for the page at a URL
ItemsOf(u) ==
    {item \in BagToSet(main.results) :
        item.chapterID = chapterList[u[1]].Identifier /\ item.imageID = u[2]}

\* C7: when a page has answered the quirk on 11 consecutive attempts (and no
\* attempt decoded to an image) and the run has returned, the run returned an
\* error, no image of that page was delivered and cancellation was triggered.
C7_GivesUpAfterElevenQuirks ==
    \A u \in quirky :
        (main.pc = "returned" /\ iw[u].try >= MaxTry + 1 /\ iw[u].img = Nil) =>
            /\ main.ret.err # NoError
            /\ ItemsOf(u) = {}
            /\ cancelled /\ iw[u].err.kind = "image"

\* C8: a page that answered the quirk fewer than MaxTry times and then a
\* decodable body leaves getImage with that decoded image and no error, and a
\* run that returned without error holds that image exactly once.
C8_RetryIsTransparent ==
    \A u \in quirky :
        /\ (iw[u].pc = "emit" /\ iw[u].try < MaxTry) =>
                iw[u].img = Bitmap(u) /\ iw[u].err = NoError
        /\ (main.pc = "returned" /\ main.ret.err = NoError /\ iw[u].pc = "done"
                /\ iw[u].try < MaxTry) =>
                CopiesIn(ExpectedImage(u[1], u[2]), main.ret.results) = 1

C8_Witness ==
    \E u \in quirky :
        /\ main.pc = "returned"
        /\ main.ret.err = NoError
        /\ iw[u].try = MaxTry - 1
        /\ CopiesIn(ExpectedImage(u[1], u[2]), main.ret.results) = 1

\* pages of all manifests resolved in the run
TotalPages == BagCardinality(ExpectedResults)

\* C9 as claimed: in a run where every fetch succeeded the reporter has seen
\* one Increase per chapter, one Increase per page, and as many Add calls as
\* images were produced.
C9_OneAddPerImageOnly ==
    (main.pc = "returned" /\ ~FetchFailed) =>
        /\ progress.incChapter = Len(chapterList)
        /\ progress.incPage = TotalPages
        /\ progress.addChapter + progress.addImage = BagCardinality(main.ret.results)

\* C9 as amended: in a run where every fetch succeeded the reporter has seen
\* one Increase per chapter, one Increase per page, one Add per chapter and
\* one Add per produced image.
C9_ProgressCalls ==
    (main.pc = "returned" /\ ~FetchFailed) =>
        /\ progress.incChapter = Len(chapterList)
        /\ progress.incPage = TotalPages
        /\ progress.addChapter = Len(chapterList)
        /\ progress.addImage = BagCardinality(main.ret.results)
        /\ progress.addImage = TotalPages

\* the worked example: 2 chapters with 3 and 2 pages, 7 Add calls
C9_Witness ==
    /\ main.pc = "returned"
    /\ ~FetchFailed
    /\ Len(chapterList) = 2 /\ pw[1].n = 3 /\ pw[2].n = 2
    /\ progress = [incChapter |-> 2, incPage |-> 5, addChapter |-> 2, addImage |-> 5]

\* C10 as claimed: once the path channel is closed, every chapter has had all
\* or none of the page locators of its manifest sent.
C10_AllOrNothing ==
    pathsClosed => \A i \in Chapters : pw[i].k = 0 \/ pw[i].k = pw[i].n

\* C10 as amended: once the path channel is closed, a chapter whose manifest
\* fetch failed has had no locator sent; any other chapter has had all or
\* none sent unless its worker unwound with "canceled" after cancellation,
\* having sent a prefix of its manifest; without cancellation every chapter
\* has had all sent.
C10_AllOrNothingUnlessCanceled ==
    pathsClosed =>
        /\ \A i \in Chapters :
            /\ pw[i].err.kind = "paths" => pw[i].k = 0
            /\ pw[i].k <= pw[i].n
            /\ (pw[i].k # 0 /\ pw[i].k # pw[i].n) => (pw[i].err = Canceled /\ cancelled)
        /\ ~cancelled => \A i \in Chapters : pw[i].pc = "done" /\ pw[i].k = pw[i].n

C10_Witness ==
    /\ pathsClosed
    /\ \E i \in Chapters : 0 < pw[i].k /\ pw[i].k < pw[i].n /\ pw[i].err = Canceled

\* C11: every item delivered on the image channel carries a non-null decoded
\* image, the one of its own page locator; no page locator has more than one
\* item, and a page whose fetch or decode failed has none.
C11_ItemsAreDecodedImages ==
    /\ \A item \in BagToSet(main.results) :
            item.Image # Nil /\ CopiesIn(item, main.results) = 1
    /\ \A u \in URLs :
            /\ Cardinality(ItemsOf(u)) <= 1
            /\ \A item \in ItemsOf(u) : item.Image = Bitmap(u)
            /\ iw[u].err.kind = "image" => ItemsOf(u) = {}

\* C13: getImage issues at most MaxTry + 1 = 11 requests for one page locator
\* (try counts the retries made; the request of the current attempt is the
\* try + 1st).
C13_AtMostElevenRequests ==
    \A u \in URLs : iw[u].pc # "idle" => iw[u].try + 1 <= MaxTry + 1

\* C14: a page whose bodies the decoder rejects with an error (and never
\* answers the quirk) is never requested a second time.
C14_DecodeErrorIsNotRetried ==
    \A u \in URLs : (u \in faulty.decode /\ u \notin quirky) => iw[u].try = 0

\* C12: once cancel() has been called no dispatcher takes a further chapter or
\* page locator from its input, no worker is started on a manifest fetch or
\* an image fetch, and no handoff to a downstream channel completes: a worker
\* at a handoff leaves it only with the "canceled" error.
C12_NoNewWorkAfterCancel ==
    [][cancelled =>
        /\ ~(dp.pc = "select" /\ dp'.pc = "go")
        /\ ~(di.pc = "select" /\ di'.pc = "go")
        /\ \A i \in Chapters :
                /\ ~(pw[i].pc = "idle" /\ pw'[i].pc = "fetch")
                /\ pw'[i].k = pw[i].k
        /\ \A u \in URLs :
                /\ ~(iw[u].pc = "idle" /\ iw'[u].pc = "fetch")
                /\ (iw[u].pc = "emit" /\ iw'[u].pc = "done") => iw'[u].err = Canceled
    ]_vars

\* C15: a non-200 answer at any attempt ends getImage with a status error:
\* the worker holds that error wrapped with the chapter and page identifiers
\* of its locator, cancel() has been called, the page has no image and no
\* item, and the worker makes no further request.
C15_StatusErrorIsFatal ==
    [][\A u \in URLs :
        iw'[u].err.cause = "status" =>
            /\ iw'[u].pc \in {"ret", "done"}
            /\ iw'[u].err = [kind |-> "image", cause |-> "status",
                             chapter |-> chapterList[u[1]].Identifier, image |-> u[2]]
            /\ cancelled'
            /\ iw'[u].img = Nil
            /\ ItemsOf(u)' = {}
            /\ iw[u].err.cause = "status" => iw'[u].try = iw[u].try
    ]_vars

\* the status error came on a quirk retry and the run has returned
C15_Witness ==
    \E u \in URLs :
        /\ iw[u].err.cause = "status"
        /\ iw[u].try >= 1
        /\ main.pc = "returned"
        /\ main.ret.err = iw[u].err

\* C16: an output channel is closed only when its stage's dispatcher and all
\* its workers have finished, so no worker is at, or on its way to, a send on
\* a closed channel; a closed channel stays closed and is not closed again.
C16_ClosedOnlyAfterStageDone ==
    [][/\ pathsClosed' =>
            /\ StageDoneP'
            /\ \A i \in Chapters : pw'[i].pc \in {"idle", "done"}
            /\ di'.pc # "go" => di'.hold = NoPath
       /\ imagesClosed' =>
            /\ StageDoneI'
            /\ \A u \in URLs : iw'[u].pc \in {"idle", "done"}
       /\ pathsClosed => (pathsClosed' /\ ~ENABLED CloserP)
       /\ imagesClosed => (imagesClosed' /\ ~ENABLED CloserI)
    ]_vars

\* both channels are closed in a cancelled run in which a path worker had to
\* unwind from its handoff, before the collector has seen the close
C16_Witness ==
    /\ pathsClosed /\ imagesClosed
    /\ main.pc = "collect"
    /\ \E i \in Chapters : pw[i].err = Canceled
    /\ \E u \in URLs : iw[u].err.kind = "image"

\* chapters whose manifest was resolved and whose page locators have all been
\* handed downstream
FullyEmitted ==
    {i \in Chapters : pw[i].pc \in {"emit", "inc", "done"} /\ pw[i].err.kind # "paths"
                        /\ pw[i].k = pw[i].n}

\* C17: the path stage has reported "chapter completed" (Add) only for
\* chapters all of whose page locators have been emitted downstream.
C17_CompletedAfterEmission ==
    progress.addChapter <= Cardinality(FullyEmitted)

\* C19: the Add calls received so far never outnumber the Increase calls
\* received so far, and when a run has returned without error both totals
\* equal the number of chapters plus the number of pages.
C19_CompletedAtMostDiscovered ==
    /\ progress.addChapter + progress.addImage <= progress.incChapter + progress.incPage
    /\ (main.pc = "returned" /\ main.ret.err = NoError) =>
            /\ progress.addChapter + progress.addImage = Len(chapterList) + TotalPages
            /\ progress.incChapter + progress.incPage = Len(chapterList) + TotalPages

\* the feeder, both dispatchers, all workers and both closers have finished
AllTasksDone ==
    /\ feeder.pc = "done"
    /\ dp.pc = "done" /\ ActiveP = {} /\ pathsClosed
    /\ di.pc = "done" /\ ActiveI = {} /\ imagesClosed

\* C18: a run never comes to rest with one of its tasks unfinished: in a
\* state where no task can take a step, every task has terminated.
C18_AllTasksTerminate == ENABLED Next \/ AllTasksDone

\* the entries MangadexCovers must return: the decoded image of every cover
ExpectedCovers ==
    SetToBag({WithImage(main.covers[j], Bitmap(main.covers[j].URL))
                : j \in 1..Len(main.covers)})

\* C20: when MangadexCovers has returned after the cover manifest was
\* resolved and no cover fetch failed, it returned a nil error and exactly one
\* entry per cover, the decoded image of that cover.
C20_OneEntryPerCover ==
    (main.pc = "returned" /\ main.ret.err.kind # "covers" /\ ~FetchFailed) =>
        /\ main.ret.err = NoError
        /\ ~main.ret.nil
        /\ BagCardinality(main.ret.results) = Len(main.covers)
        /\ main.ret.results = ExpectedCovers

====
